---- MODULE Spec2Model ----
(***************************************************************************)
(* Model of lib/aardvark_gpio.py: the AardvarkGPIO controller (one opened  *)
(* adapter handle, one selected pin, inverted logic) and the command-line  *)
(* front end main().  The vendor driver (aardvark_py) is the environment:  *)
(* it owns the device registers and answers every call with a value or a   *)
(* negative status code.                                                   *)
(***************************************************************************)
EXTENDS Integers, Sequences, FiniteSets, TLC

\* ------------------------------------------------------------------------
\* Bounds of the model
\* ------------------------------------------------------------------------
MaxDevices == 1     \* aa_find_devices_ext reports 0..MaxDevices adapters
MaxPort == 1        \* the port argument ranges over -1..MaxPort
MaxAt == 18         \* the driver call of a handler that may be refused: 1..MaxAt

\* ------------------------------------------------------------------------
\* Vendor constants used by the module
\* ------------------------------------------------------------------------
AA_GPIO_SCL == 1
AA_GPIO_SDA == 2
AA_GPIO_MISO == 4
AA_GPIO_SCK == 8
AA_GPIO_MOSI == 16
AA_GPIO_SS == 32
AA_CONFIG_GPIO_ONLY == 0

\* Optional[int]: None is the empty tuple, the integer h is <<h>>
None == <<>>

Some(h) == <<h>>

\* Python truth value of an Optional[int]
Truthy(o) == o # None /\ o[1] # 0

\* ------------------------------------------------------------------------
\* Python integers: & | ~ on unbounded two's complement values
\* ------------------------------------------------------------------------
RECURSIVE And(_, _)
And(x, y) ==
  IF x = 0 \/ y = 0 THEN 0
  ELSE IF x = -1 THEN y
  ELSE IF y = -1 THEN x
  ELSE (x % 2) * (y % 2) + 2 * And(x \div 2, y \div 2)

RECURSIVE Or(_, _)
Or(x, y) ==
  IF x = 0 THEN y
  ELSE IF y = 0 THEN x
  ELSE IF x = -1 \/ y = -1 THEN -1
  ELSE (IF x % 2 = 1 \/ y % 2 = 1 THEN 1 ELSE 0) + 2 * Or(x \div 2, y \div 2)

Not(x) == -x - 1

\* ------------------------------------------------------------------------
\* Strings are sequences of one-character strings
\* ------------------------------------------------------------------------
UpperChar(c) ==
  CASE c = "a" -> "A" [] c = "c" -> "C" [] c = "d" -> "D" [] c = "i" -> "I"
    [] c = "k" -> "K" [] c = "l" -> "L" [] c = "m" -> "M" [] c = "o" -> "O"
    [] c = "s" -> "S" [] c = "x" -> "X"
    [] OTHER -> c

upper(s) == [i \in 1..Len(s) |-> UpperChar(s[i])]

Digits == <<"0", "1", "2", "3", "4", "5", "6", "7", "8", "9">>

IsDigit(c) == \E d \in 1..10 : Digits[d] = c

DigitVal(c) == (CHOOSE d \in 1..10 : Digits[d] = c) - 1

RECURSIVE DecVal(_)
DecVal(s) ==
  IF s = <<>> THEN 0
  ELSE 10 * DecVal(SubSeq(s, 1, Len(s) - 1)) + DigitVal(s[Len(s)])

IsDec(s) == s # <<>> /\ \A i \in 1..Len(s) : IsDigit(s[i])

\* int(text): the value, or ValueError for a text that is no integer literal
IsIntText(s) ==
  \/ IsDec(s)
  \/ Len(s) > 1 /\ s[1] \in {"-", "+"} /\ IsDec(Tail(s))

int(s) ==
  IF IsDec(s) THEN DecVal(s)
  ELSE IF s[1] = "-" THEN 0 - DecVal(Tail(s))
  ELSE DecVal(Tail(s))

\* ------------------------------------------------------------------------
\* GPIO_PINS: insertion-ordered table name -> mask
\* ------------------------------------------------------------------------
SCL == <<"S", "C", "L">>
SDA == <<"S", "D", "A">>
MISO == <<"M", "I", "S", "O">>
SCK == <<"S", "C", "K">>
MOSI == <<"M", "O", "S", "I">>
SS == <<"S", "S">>

pin_names == <<SCL, SDA, MISO, SCK, MOSI, SS>>

pin_masks == <<AA_GPIO_SCL, AA_GPIO_SDA, AA_GPIO_MISO, AA_GPIO_SCK, AA_GPIO_MOSI, AA_GPIO_SS>>

InPins(name) == \E i \in 1..Len(pin_names) : pin_names[i] = name

index(name) == (CHOOSE i \in 1..Len(pin_names) : pin_names[i] = name) - 1

GPIO_PINS(name) == pin_masks[index(name) + 1]

\* ------------------------------------------------------------------------
\* Inputs
\* ------------------------------------------------------------------------
ErrCodes == {-7}                \* negative status codes a driver call can return
Handles == {1}                  \* handles aa_open hands out
Ports == -1..MaxPort
Durations == {-1, 0, 100}       \* milliseconds
InitRegs == {0, 42, 213, 255}   \* the bit register before the program runs
InitModes == {3}                \* the adapter starts with I2C and SPI enabled
AllRegs == 0..255

IntPins == {[type |-> "int", val |-> n] : n \in -1..6}

StrPins ==
  {[type |-> "str", val |-> s] :
     s \in {SCL, <<"S", "d", "a">>, <<"m", "i", "s", "o">>, <<"s", "c", "k">>, MOSI, SS,
            <<"S", "C">>, <<"X">>, <<>>, <<"3">>}}

OtherPins == {[type |-> "NoneType", val |-> 0], [type |-> "float", val |-> 2]}

PinSelectors == IntPins \cup StrPins \cup OtherPins

\* what the driver does during one handler: the at-th call returns code
\* (0: none does); strict: the binding raises TypeError for a handle that is
\* no integer, otherwise it returns code for it
Plans(n) ==
  [at : 0..n, code : ErrCodes, strict : BOOLEAN, num_devices : 0..MaxDevices,
   handle : Handles]

\* a method makes no use of the enumeration
MethodPlans(n) == {plan \in Plans(n) : plan.num_devices = 0}

\* the driver carries out every call
IdealPlans == {plan \in Plans(0) : plan.strict /\ plan.num_devices = 1}

\* ------------------------------------------------------------------------
\* Exceptions
\* ------------------------------------------------------------------------
NoErr == [type |-> "none", msg |-> "none"]

Err(t, m) == [type |-> t, msg |-> m]

\* ------------------------------------------------------------------------
\* The vendor driver.  A world w carries the controller object (self), the
\* device (dev), the driver calls of the running handler (calls), the
\* pending exception (err), the value of the last driver call (val), the
\* handler's return value (ret), the standard output (out) and the plan.
\* A statement is skipped while an exception is pending.
\* ------------------------------------------------------------------------
Logged(w, fn, h, arg) ==
  [w EXCEPT !.calls = Append(@, [fn |-> fn, h |-> h, arg |-> arg, val |-> w.val])]

\* the call is answered with a status code instead of being carried out
Refused(w, h) == h = None \/ h[1] \notin w.dev.open \/ w.plan.at = Len(w.calls) + 1

\* a call on a handle: carried out (done), refused with a status code, or
\* rejected by the binding with TypeError before the driver is entered
OnHandle(w, fn, h, arg, done) ==
  IF w.err # NoErr THEN w
  ELSE IF h = None /\ w.plan.strict
    THEN [w EXCEPT !.err = Err("TypeError", "driver")]
  ELSE IF Refused(w, h)
    THEN Logged([w EXCEPT !.val = w.plan.code,
                          !.faulted = @ \/ w.plan.at = Len(w.calls) + 1], fn, h, arg)
  ELSE Logged(done, fn, h, arg)

aa_find_devices_ext(w) ==
  IF w.err # NoErr THEN w
  ELSE IF w.plan.at = Len(w.calls) + 1
    THEN Logged([w EXCEPT !.val = w.plan.code, !.faulted = TRUE],
                "aa_find_devices_ext", None, 16)
  ELSE Logged([w EXCEPT !.val = w.plan.num_devices], "aa_find_devices_ext", None, 16)

aa_open(w, port) ==
  IF w.err # NoErr THEN w
  ELSE IF \/ w.plan.at = Len(w.calls) + 1
          \/ port < 0 \/ port >= w.plan.num_devices
          \/ w.plan.handle \in w.dev.open
    THEN Logged([w EXCEPT !.val = w.plan.code], "aa_open", None, port)
  ELSE Logged([w EXCEPT !.val = w.plan.handle, !.dev.open = @ \cup {w.plan.handle}],
              "aa_open", None, port)

aa_version(w, h) == OnHandle(w, "aa_version", h, 0, [w EXCEPT !.val = 0])

aa_configure(w, h, config) ==
  OnHandle(w, "aa_configure", h, config, [w EXCEPT !.dev.mode = config, !.val = config])

aa_gpio_direction(w, h, mask) ==
  OnHandle(w, "aa_gpio_direction", h, mask, [w EXCEPT !.dev.dir = mask % 256, !.val = 0])

aa_gpio_pullup(w, h, mask) ==
  OnHandle(w, "aa_gpio_pullup", h, mask, [w EXCEPT !.dev.pullup = mask % 256, !.val = 0])

aa_gpio_get(w, h) == OnHandle(w, "aa_gpio_get", h, 0, [w EXCEPT !.val = w.dev.reg])

aa_gpio_set(w, h, value) ==
  OnHandle(w, "aa_gpio_set", h, value, [w EXCEPT !.dev.reg = value % 256, !.val = 0])

aa_close(w, h) ==
  OnHandle(w, "aa_close", h, 0, [w EXCEPT !.dev.open = @ \ {h[1]}, !.val = 1])

sleep(w, ms) ==
  IF w.err # NoErr THEN w
  ELSE IF ms < 0 THEN [w EXCEPT !.err = Err("ValueError", "sleep")]
  ELSE w

\* raise e unless an exception is already pending
Raise(w, e) == IF w.err # NoErr THEN w ELSE [w EXCEPT !.err = e]

\* ------------------------------------------------------------------------
\* class AardvarkGPIO
\* ------------------------------------------------------------------------
\* variant: the startup write happens before the pin is made an output
_configure_gpio_write_first(w) ==
  LET w1 == aa_gpio_get(w, w.self.handle)
      current == w1.val
      new_value == And(current, Not(w1.self.pin_mask))
      w2 == aa_gpio_set(w1, w1.self.handle, new_value)
      w3 == aa_gpio_direction(w2, w2.self.handle, w2.self.pin_mask)
  IN  aa_gpio_pullup(w3, w3.self.handle, 0)

\* variant: the pin is made an output but its bit is left as found
_configure_gpio_no_clear(w) ==
  LET w1 == aa_gpio_direction(w, w.self.handle, w.self.pin_mask)
      w2 == aa_gpio_pullup(w1, w1.self.handle, 0)
      w3 == aa_gpio_get(w2, w2.self.handle)
      current == w3.val
  IN  aa_gpio_set(w3, w3.self.handle, current)

_configure_gpio(w) ==
  LET w1 == aa_gpio_direction(w, w.self.handle, w.self.pin_mask)
      w2 == aa_gpio_pullup(w1, w1.self.handle, 0)
      w3 == aa_gpio_get(w2, w2.self.handle)
      current == w3.val
      new_value == And(current, Not(w3.self.pin_mask))
  IN  aa_gpio_set(w3, w3.self.handle, new_value)

\* variant: the adapter is configured before the handle is checked
_open_unchecked(w) ==
  LET w1 == aa_find_devices_ext(w)
      num_devices == w1.val
      w2 == aa_open(w1, w1.self.port)
      w3 == [w2 EXCEPT !.self.handle = Some(w2.val)]
      w4 == aa_version(w3, w3.self.handle)
      w5 == aa_configure(w4, w4.self.handle, AA_CONFIG_GPIO_ONLY)
  IN  IF w1.err # NoErr THEN w1
      ELSE IF num_devices = 0 THEN Raise(w1, Err("RuntimeError", "no adapters found"))
      ELSE IF w1.self.port >= num_devices
        THEN Raise(w1, Err("ValueError", "port not available"))
      ELSE IF w5.self.handle[1] <= 0
        THEN Raise(w5, Err("RuntimeError", "failed to open"))
      ELSE _configure_gpio(w5)

_open(w) ==
  LET w1 == aa_find_devices_ext(w)
      num_devices == w1.val
      w2 == aa_open(w1, w1.self.port)
      w3 == [w2 EXCEPT !.self.handle = Some(w2.val)]
      w4 == aa_version(w3, w3.self.handle)
      w5 == aa_configure(w4, w4.self.handle, AA_CONFIG_GPIO_ONLY)
  IN  IF w1.err # NoErr THEN w1
      ELSE IF num_devices = 0 THEN Raise(w1, Err("RuntimeError", "no adapters found"))
      ELSE IF w1.self.port >= num_devices
        THEN Raise(w1, Err("ValueError", "port not available"))
      ELSE IF w3.self.handle[1] <= 0
        THEN Raise(w3, Err("RuntimeError", "failed to open"))
      ELSE _configure_gpio(w5)

\* variant: only the upper end of the range is checked, so that a negative
\* number indexes the pin names from the end
__init___upper_only(w, port, pin) ==
  LET w0 == [w EXCEPT !.self.port = port, !.self.handle = None]
      at == IF pin.val < 0 THEN Len(pin_names) + pin.val + 1 ELSE pin.val + 1
      pin_upper == upper(pin.val)
      byNum == [w0 EXCEPT !.self.pin_name = pin_names[at],
                          !.self.pin_mask = GPIO_PINS(pin_names[at]),
                          !.self.pin_num = index(pin_names[at])]
      byName == [w0 EXCEPT !.self.pin_name = pin_upper,
                           !.self.pin_mask = GPIO_PINS(pin_upper),
                           !.self.pin_num = index(pin_upper)]
  IN  IF pin.type = "int"
        THEN IF pin.val > 5
               THEN Raise(w0, Err("ValueError", "invalid pin"))
               ELSE _open(byNum)
      ELSE IF pin.type = "str"
        THEN IF ~InPins(pin_upper)
               THEN Raise(w0, Err("ValueError", "invalid pin name"))
               ELSE _open(byName)
      ELSE Raise(w0, Err("TypeError", "pin must be int or str"))

__init__(w, port, pin) ==
  LET w0 == [w EXCEPT !.self.port = port, !.self.handle = None]
      pin_upper == upper(pin.val)
      byNum == [w0 EXCEPT !.self.pin_name = pin_names[pin.val + 1],
                          !.self.pin_mask = GPIO_PINS(pin_names[pin.val + 1]),
                          !.self.pin_num = index(pin_names[pin.val + 1])]
      byName == [w0 EXCEPT !.self.pin_name = pin_upper,
                           !.self.pin_mask = GPIO_PINS(pin_upper),
                           !.self.pin_num = index(pin_upper)]
  IN  IF pin.type = "int"
        THEN IF pin.val < 0 \/ pin.val > 5
               THEN Raise(w0, Err("ValueError", "invalid pin"))
               ELSE _open(byNum)
      ELSE IF pin.type = "str"
        THEN IF ~InPins(pin_upper)
               THEN Raise(w0, Err("ValueError", "invalid pin name"))
               ELSE _open(byName)
      ELSE Raise(w0, Err("TypeError", "pin must be int or str"))

set_high(w) ==
  LET w1 == aa_gpio_get(w, w.self.handle)
      current == w1.val
      new_value == And(current, Not(w1.self.pin_mask))
      w2 == aa_gpio_set(w1, w1.self.handle, new_value)
  IN  aa_gpio_get(w2, w2.self.handle)

\* variant: the mask alone is written, without the bits read
set_low_mask_only(w) ==
  LET w1 == aa_gpio_get(w, w.self.handle)
      new_value == w1.self.pin_mask
      w2 == aa_gpio_set(w1, w1.self.handle, new_value)
  IN  aa_gpio_get(w2, w2.self.handle)

set_low(w) ==
  LET w1 == aa_gpio_get(w, w.self.handle)
      current == w1.val
      new_value == Or(current, w1.self.pin_mask)
      w2 == aa_gpio_set(w1, w1.self.handle, new_value)
  IN  aa_gpio_get(w2, w2.self.handle)

get_state(w) ==
  LET w1 == aa_gpio_get(w, w.self.handle)
      value == w1.val
      is_high == And(value, w1.self.pin_mask) # 0
  IN  IF w1.err # NoErr THEN w1 ELSE [w1 EXCEPT !.ret = IF is_high THEN "True" ELSE "False"]

pulse(w, duration_ms) == set_high(sleep(set_low(w), duration_ms))

close(w) ==
  LET w1 == aa_close(w, w.self.handle)
  IN  IF w.err # NoErr THEN w
      ELSE IF Truthy(w.self.handle)
        THEN IF w1.err # NoErr THEN w1 ELSE [w1 EXCEPT !.self.handle = None]
      ELSE w

__enter__(w) == w

\* variant: leaving the block does not close
__exit___no_close(w) == w

\* runs with the exception of the block pending, which it does not suppress
__exit__(w) ==
  LET c == close([w EXCEPT !.err = NoErr])
  IN  IF c.err # NoErr THEN c ELSE [c EXCEPT !.err = w.err]

__del__(w) == close(w)

\* ------------------------------------------------------------------------
\* main(): args is the parsed command line
\* ------------------------------------------------------------------------
print(w, text, name) ==
  IF w.err # NoErr THEN w
  ELSE [w EXCEPT !.stdout = Append(@, [text |-> text, pin_name |-> name])]

\* pin = int(args.pin), or args.pin itself when that raises ValueError
MainPin(args) ==
  IF IsIntText(args.pin) THEN [type |-> "int", val |-> int(args.pin)]
  ELSE [type |-> "str", val |-> args.pin]

\* print(f"GPIO {gpio.pin_name} is {'HIGH' if state else 'LOW'}")
PrintState(state) ==
  print(state, IF state.ret = "True" THEN "is HIGH" ELSE "is LOW", state.self.pin_name)

Cycle(gpio, duration) ==
  LET c1 == set_high(print(gpio, "Power cycling", <<>>))
      c2 == set_low(sleep(c1, 500))
      c3 == set_high(sleep(c2, duration))
  IN  print(c3, "Power cycle complete", <<>>)

\* the body of the with statement
MainAction(gpio, args) ==
  CASE args.action = "high" -> set_high(gpio)
    [] args.action = "low" -> set_low(gpio)
    [] args.action = "get" -> PrintState(get_state(gpio))
    [] args.action = "cycle" -> Cycle(gpio, args.duration)

\* except Exception: exit status 1; falling off the end: 0
Exited(left) == [left EXCEPT !.status = Some(IF left.err # NoErr THEN 1 ELSE 0)]

\* the try statement, made being the world __init__ leaves
With(made, args) ==
  IF made.err # NoErr THEN Exited(made)
  ELSE Exited(__exit__(MainAction(__enter__(made), args)))

main(w, args) == With(__init__(w, args.port, MainPin(args)), args)

Actions == {"high", "low", "get", "cycle"}

PinTexts ==
  {SCK, SCL, SS, <<"s", "c", "k">>, <<"m", "o", "s", "i">>, <<"X">>, <<"0">>, <<"3">>,
   <<"5">>, <<"9">>, <<"-", "1">>}

Args == [port : Ports, pin : PinTexts, action : Actions, duration : Durations]

\* ------------------------------------------------------------------------
\* State
\* ------------------------------------------------------------------------
VARIABLES
  self,         \* the controller object: port, handle, pin_name, pin_mask, pin_num
  dev,          \* the adapter: mode, dir, pullup, reg and the open handles
  calls,        \* driver calls made by the last handler
  err,          \* exception the last handler ended with
  ret,          \* value get_state returned in the last handler
  stdout,       \* lines printed by main
  status,       \* exit status of main
  faulted,      \* some driver call has been refused with a status code
  life,         \* "unborn", "live", "garbage" (only __del__ is left), "dead"
  constructed,  \* __init__ returned normally
  client,       \* "lib": the methods are called directly, "cli": by main
  op,           \* the last handler
  last,         \* the last state-changing method the owner called
  sel,          \* the pin selector given to __init__
  argv,         \* the command line main ran with
  closes        \* close() calls on the object so far, counted up to 2

vars ==
  <<self, dev, calls, err, ret, stdout, status, faulted, life, constructed, client, op,
    last, sel, argv, closes>>

NoSel == [type |-> "none", val |-> 0]

NoArgs == [port |-> 0, pin |-> <<>>, action |-> "none", duration |-> 0]

Init ==
  /\ self = [port |-> 0, handle |-> None, pin_name |-> <<>>, pin_mask |-> 0, pin_num |-> 0]
  /\ dev \in [mode : InitModes, dir : {0}, pullup : {AA_GPIO_SCL + AA_GPIO_SDA},
               reg : InitRegs, open : {{}}]
  /\ calls = <<>>
  /\ err = NoErr
  /\ ret = "None"
  /\ stdout = <<>>
  /\ status = None
  /\ faulted = FALSE
  /\ life = "unborn"
  /\ constructed = FALSE
  /\ client = "none"
  /\ op = "none"
  /\ last = "none"
  /\ sel = NoSel
  /\ argv = NoArgs
  /\ closes = 0

\* the world a handler starts in, and the state it leaves
World(plan) ==
  [self |-> self, dev |-> dev, calls |-> <<>>, err |-> NoErr, val |-> 0, ret |-> "None",
   stdout |-> stdout, status |-> status, faulted |-> faulted, plan |-> plan]

Commit(w) ==
  /\ self' = w.self
  /\ dev' = w.dev
  /\ calls' = w.calls
  /\ err' = w.err
  /\ ret' = w.ret
  /\ stdout' = w.stdout
  /\ status' = w.status
  /\ faulted' = w.faulted

\* a method call by the owner of a live controller; one refused call per run
Method(name, plan) ==
  /\ life = "live"
  /\ client = "lib"
  /\ faulted => plan.at = 0
  /\ self.handle # None => plan.strict
  /\ op' = name
  /\ UNCHANGED <<life, constructed, client, sel, argv>>

Counted == IF closes < 2 THEN closes + 1 ELSE closes

\* ------------------------------------------------------------------------
\* Actions
\* ------------------------------------------------------------------------
ConstructFrom(ports, pins, plans) ==
  /\ life = "unborn"
  /\ \E port \in ports, pin \in pins, plan \in {p \in plans : p.strict} :
      \E w \in {__init__(World(plan), port, pin)} :
        /\ Commit(w)
        /\ life' = IF w.err = NoErr THEN "live" ELSE "garbage"
        /\ constructed' = (w.err = NoErr)
        /\ client' = "lib"
        /\ op' = "__init__"
        /\ sel' = pin
        /\ UNCHANGED <<last, argv, closes>>

SetHighBy(plans) ==
  \E plan \in plans :
    /\ Method("set_high", plan)
    /\ \E w \in {set_high(World(plan))} : Commit(w)
    /\ last' = "set_high"
    /\ UNCHANGED closes

SetLowBy(plans) ==
  \E plan \in plans :
    /\ Method("set_low", plan)
    /\ \E w \in {set_low(World(plan))} : Commit(w)
    /\ last' = "set_low"
    /\ UNCHANGED closes

GetStateBy(plans) ==
  \E plan \in plans :
    /\ Method("get_state", plan)
    /\ \E w \in {get_state(World(plan))} : Commit(w)
    /\ UNCHANGED <<last, closes>>

PulseBy(plans) ==
  \E plan \in plans, duration_ms \in Durations :
    /\ Method("pulse", plan)
    /\ \E w \in {pulse(World(plan), duration_ms)} : Commit(w)
    /\ last' = "pulse"
    /\ UNCHANGED closes

Construct == ConstructFrom(Ports, PinSelectors, Plans(MaxAt))

SetHigh == SetHighBy(MethodPlans(3))

SetLow == SetLowBy(MethodPlans(3))

GetState == GetStateBy(MethodPlans(1))

Pulse == PulseBy(MethodPlans(6))

Close ==
  \E plan \in MethodPlans(1) :
    /\ Method("close", plan)
    /\ \E w \in {close(World(plan))} : Commit(w)
    /\ closes' = Counted
    /\ UNCHANGED last

Exit ==
  \E plan \in MethodPlans(1) :
    /\ Method("__exit__", plan)
    /\ \E w \in {__exit__(World(plan))} : Commit(w)
    /\ closes' = Counted
    /\ UNCHANGED last

Del ==
  \E plan \in MethodPlans(1) :
    /\ life \in {"live", "garbage"}
    /\ plan.strict
    /\ faulted => plan.at = 0
    /\ \E w \in {__del__(World(plan))} : Commit(w)
    /\ life' = "dead"
    /\ op' = "__del__"
    /\ closes' = Counted
    /\ UNCHANGED <<constructed, client, sel, argv, last>>

Main ==
  /\ life = "unborn"
  /\ \E args \in Args, plan \in {p \in Plans(MaxAt) : p.strict} :
    \E made \in {__init__(World(plan), args.port, MainPin(args))} :
      \E w \in {With(made, args)} :
        /\ Commit(w)
        /\ life' = "garbage"
        /\ constructed' = (made.err = NoErr)
        /\ client' = "cli"
        /\ op' = "main"
        /\ sel' = MainPin(args)
        /\ argv' = args
        /\ closes' = IF made.err = NoErr THEN 1 ELSE 0
        /\ UNCHANGED last

Next ==
  \/ Construct
  \/ SetHigh
  \/ SetLow
  \/ GetState
  \/ Pulse
  \/ Close
  \/ Exit
  \/ Del
  \/ Main

Spec == Init /\ [][Next]_vars

\* ------------------------------------------------------------------------
\* The controller on a driver that carries out every call, from every value
\* of the bit register
\* ------------------------------------------------------------------------
InitIdeal ==
  /\ self = [port |-> 0, handle |-> None, pin_name |-> <<>>, pin_mask |-> 0, pin_num |-> 0]
  /\ dev \in [mode : InitModes, dir : {0}, pullup : {AA_GPIO_SCL + AA_GPIO_SDA},
               reg : AllRegs, open : {{}}]
  /\ calls = <<>>
  /\ err = NoErr
  /\ ret = "None"
  /\ stdout = <<>>
  /\ status = None
  /\ faulted = FALSE
  /\ life = "unborn"
  /\ constructed = FALSE
  /\ client = "none"
  /\ op = "none"
  /\ last = "none"
  /\ sel = NoSel
  /\ argv = NoArgs
  /\ closes = 0

ConstructIdeal == ConstructFrom({0}, {pin \in IntPins : pin.val \in 0..5}, IdealPlans)

SetHighIdeal == SetHighBy(IdealPlans)

SetLowIdeal == SetLowBy(IdealPlans)

GetStateIdeal == GetStateBy(IdealPlans)

PulseIdeal == PulseBy(IdealPlans)

NextIdeal ==
  \/ ConstructIdeal
  \/ SetHighIdeal
  \/ SetLowIdeal
  \/ GetStateIdeal
  \/ PulseIdeal

SpecIdeal == InitIdeal /\ [][NextIdeal]_vars

\* ------------------------------------------------------------------------
\* Properties
\* ------------------------------------------------------------------------
PinOps == {"set_high", "set_low", "get_state", "pulse"}

Fns(log) == [i \in 1..Len(log) |-> log[i].fn]

Made(fn) == \E i \in 1..Len(calls) : calls[i].fn = fn

\* a register read or write of the last handler that reported a failure
FailedAt(i) ==
  /\ i \in 1..Len(calls)
  /\ calls[i].fn \in {"aa_gpio_get", "aa_gpio_set"}
  /\ calls[i].val < 0

StillOpen == life = "live" /\ client = "lib" /\ self.handle # None /\ ~faulted

\* C1: on an open controller whose register stores what is written,
\* get_state() returns true exactly when the last state-changing call was
\* set_low(), and false after set_high(), after pulse(d) and when there was
\* none since construction.
C1_GetStateFollowsLastCall ==
  (StillOpen /\ op = "get_state") =>
    /\ err = NoErr
    /\ ret = IF last = "set_low" THEN "True" ELSE "False"

\* C2: construction and every set_high, set_low, pulse and get_state leave
\* every register bit other than the selected pin's as it was; set_low sets
\* the pin's bit and set_high clears it.
C2_OtherBitsKept ==
  [][/\ \A b \in {1, 2, 4, 8, 16, 32, 64, 128} :
          b # self'.pin_mask => And(dev'.reg, b) = And(dev.reg, b)
     /\ op' = "set_low" => And(dev'.reg, self'.pin_mask) = self'.pin_mask
     /\ op' \in {"__init__", "set_high"} => And(dev'.reg, self'.pin_mask) = 0]_vars

C2_Witness ==
  /\ op = "set_high"
  /\ last = "set_high"
  /\ self.pin_mask = AA_GPIO_SCK
  /\ dev.reg = 247

\* the command line --pin SCK --get on an adapter that opens and carries out
\* every call, started with the SCK bit of the register set
SckGetRun ==
  /\ op' = "main"
  /\ argv'.pin = SCK
  /\ argv'.action = "get"
  /\ constructed'
  /\ ~faulted'
  /\ And(dev.reg, AA_GPIO_SCK) # 0

\* C3 as stated: the run prints that SCK is HIGH and exits with 0.
C3_GetPrintsHigh ==
  [][SckGetRun =>
       /\ stdout' = <<[text |-> "is HIGH", pin_name |-> SCK]>>
       /\ status' = Some(0)]_vars

\* C3 amended: the run prints that SCK is LOW and exits with 0, the startup
\* initialization having cleared the bit before it is read.
C3_GetPrintsLow ==
  [][SckGetRun =>
       /\ stdout' = <<[text |-> "is LOW", pin_name |-> SCK]>>
       /\ status' = Some(0)]_vars

C3_Witness ==
  /\ op = "main"
  /\ argv.pin = SCK
  /\ argv.action = "get"
  /\ constructed
  /\ ~faulted
  /\ dev.reg = 247
  /\ status = Some(0)

\* C4: close() twice raises nothing, and every pin operation after it fails
\* with an error without a register read or write being made.
C4_ClosedOpsFailNotOpen ==
  /\ op = "close" => err = NoErr
  /\ (client = "lib" /\ closes = 2 /\ self.handle = None /\ op \in PinOps) =>
       /\ err # NoErr
       /\ ~Made("aa_gpio_get")
       /\ ~Made("aa_gpio_set")

\* the selectors the constructor is to accept
EqualsIgnoringCase(a, b) == upper(a) = upper(b)

ValidSel(s) ==
  \/ s.type = "int" /\ s.val \in 0..5
  \/ s.type = "str" /\ \E i \in 1..Len(pin_names) : EqualsIgnoringCase(s.val, pin_names[i])

\* C5: with a pin selector that is no integer 0-5 and no pin name in any
\* case, construction fails with ValueError or TypeError and neither it nor
\* the later __del__ makes a driver call.
C5_InvalidPinNoDriverCall ==
  (sel # NoSel /\ ~ValidSel(sel)) =>
    /\ ~constructed
    /\ calls = <<>>
    /\ self.handle = None
    /\ op \in {"__init__", "main"} => err.type \in {"ValueError", "TypeError"}
    /\ op = "main" => status = Some(1)

C5_Witness ==
  /\ op = "__del__"
  /\ sel = [type |-> "int", val |-> -1]
  /\ calls = <<>>

\* C6: a construction that ends with no adapters found, port not available
\* or failed to open has raised the matching error before aa_configure,
\* aa_gpio_direction, aa_gpio_pullup or aa_gpio_set was called, and the mode,
\* direction, pullup and bit registers are as before.
C6_FailedOpenTouchesNothing ==
  [][(/\ op' \in {"__init__", "main"}
      /\ ValidSel(sel')
      /\ \/ calls'[1].val = 0
         \/ self'.port >= calls'[1].val
         \/ Len(calls') >= 2 /\ calls'[2].val <= 0) =>
       /\ err' = IF calls'[1].val = 0 THEN Err("RuntimeError", "no adapters found")
                 ELSE IF self'.port >= calls'[1].val
                   THEN Err("ValueError", "port not available")
                 ELSE Err("RuntimeError", "failed to open")
       /\ \A i \in 1..Len(calls') :
            calls'[i].fn \in {"aa_find_devices_ext", "aa_open"}
       /\ dev'.mode = dev.mode
       /\ dev'.dir = dev.dir
       /\ dev'.pullup = dev.pullup
       /\ dev'.reg = dev.reg]_vars

C6_Witness ==
  /\ op = "__init__"
  /\ err = Err("RuntimeError", "failed to open")
  /\ Fns(calls) = <<"aa_find_devices_ext", "aa_open">>
  /\ calls[2].val < 0

\* C7: when a register read or write of set_high, set_low or get_state
\* reports a failure, the operation ends there with an error: that call is
\* its last driver call and get_state returns nothing.
C7_FailedIOStopsOperation ==
  (life = "live" /\ self.handle # None /\ op \in {"set_high", "set_low", "get_state"}) =>
    \A i \in 1..Len(calls) :
      FailedAt(i) => (err # NoErr /\ i = Len(calls) /\ ret = "None")

\* C8: the stored handle is None or a positive integer, and aa_close is only
\* called with a positive handle.
C8_HandleNoneOrPositive ==
  /\ self.handle = None \/ self.handle[1] > 0
  /\ \A i \in 1..Len(calls) : calls[i].fn = "aa_close" => calls[i].h[1] > 0

\* C9: when main has constructed the controller, then however the action
\* ended, leaving the with block has called aa_close once, on the handle
\* aa_open returned, and has set the handle to None; the later __del__
\* does not call aa_close again.
C9_ScopeExitCloses ==
  /\ (op = "main" /\ constructed) =>
       /\ self.handle = None
       /\ status # None
       /\ calls[Len(calls)].fn = "aa_close"
       /\ calls[Len(calls)].h = Some(calls[2].val)
       /\ \A i \in 1..(Len(calls) - 1) : calls[i].fn # "aa_close"
  /\ (op = "__del__" /\ client = "cli" /\ constructed) => ~Made("aa_close")

C9_Witness ==
  /\ op = "main"
  /\ constructed
  /\ argv.action = "cycle"
  /\ err = Err("ValueError", "sleep")
  /\ status = Some(1)
  /\ self.handle = None

\* the driver calls of a construction, aa_version left out
Ordered(log) == SelectSeq(SubSeq(log, 1, 8), LAMBDA c : c.fn # "aa_version")

\* C10: a successful construction calls aa_find_devices_ext, aa_open(port),
\* aa_configure(GPIO only), aa_gpio_direction(pin mask), aa_gpio_pullup(0),
\* aa_gpio_get and aa_gpio_set in this order.
C10_ConstructionOrder ==
  (constructed /\ op \in {"__init__", "main"}) =>
    /\ Len(calls) >= 8
    /\ Fns(Ordered(calls)) =
         <<"aa_find_devices_ext", "aa_open", "aa_configure", "aa_gpio_direction",
           "aa_gpio_pullup", "aa_gpio_get", "aa_gpio_set">>
    /\ Ordered(calls)[2].arg = self.port
    /\ Ordered(calls)[3].arg = AA_CONFIG_GPIO_ONLY
    /\ Ordered(calls)[4].arg = self.pin_mask
    /\ Ordered(calls)[5].arg = 0

C10_Witness ==
  /\ op = "__init__"
  /\ constructed
  /\ ~faulted
  /\ self.pin_mask = AA_GPIO_MOSI
  /\ dev.dir = AA_GPIO_MOSI
  /\ dev.mode = AA_CONFIG_GPIO_ONLY

====
